---------------------------- MODULE Spec2Model ----------------------------
(***************************************************************************)
(* Model of the Book Assistant backend: the SkillExecutionGate singleton   *)
(* (src/src/agents/BookAssistant.agent.ts), the skill handlers that go     *)
(* through it, and the HTTP routes of src/src/api/server.ts that reset it. *)
(*                                                                         *)
(* Strings are modelled as sequences of tokens: a message is the sequence  *)
(* of its literal pieces and interpolated values, so that concatenation,   *)
(* String.replace and "contains" are computed, not assumed.                *)
(***************************************************************************)
EXTENDS Integers, Sequences, FiniteSets, TLC

\* ------------------------------------------------------------------ bounds
\* how many distinct input ids the gate-level specification draws from
NumIds == 1
\* startNewInput calls in one behaviour of the gate-level specification
MaxSessions == 2
\* canExecute calls between two startNewInput calls (gate-level)
MaxCalls == 2
\* HTTP requests received in one behaviour
MaxRequests == 2
\* tool calls the language model issues in one /api/agent/prompt request
MaxToolCalls == 2
\* handler invocations in one behaviour of the handler-level specification
MaxHandlerCalls == 2
\* markCompleted calls between two startNewInput calls (gate-level)
MaxMarks == 1

\* ------------------------------------------------------- program constants
\* the skills registered on the agent with agent.addSkill
SkillRegistry ==
    << "index_document", "lookup_document", "purge_documents",
       "get_document_info", "send_email", "list_documents" >>

Skills == { SkillRegistry[i] : i \in 1..Len(SkillRegistry) }

\* the decoration String.replace strips in getBlockedMessage
TaskComplete == "TASK COMPLETE:"

\* the initial value of currentInputId
NoInput == ""

\* ------------------------------------------------------------------ strings
RECURSIVE replaceFirst(_, _)
\* String.prototype.replace(pattern, ''): drops the first occurrence only
replaceFirst(s, tok) ==
    IF s = << >> THEN << >>
    ELSE IF Head(s) = tok THEN Tail(s)
    ELSE << Head(s) >> \o replaceFirst(Tail(s), tok)

\* the JavaScript value undefined, where a string is expected
Undefined == << "<undefined>" >>

\* JavaScript truthiness of a value stored in skillResults
Truthy(v) == v # Undefined /\ v # << >>

\* s contains t as a contiguous piece
Contains(s, t) ==
    \E i \in 0..(Len(s) - Len(t)) : SubSeq(s, i + 1, i + Len(t)) = t

\* -------------------------------------------------------- SkillExecutionGate
EmptyMap == [k \in {} |-> << >>]

\* new SkillExecutionGate()
NewGate ==
    [ executedSkills      |-> {},
      currentInputId      |-> NoInput,
      skillResults        |-> EmptyMap,
      hasExecutedAnySkill |-> FALSE ]

\* `${this.currentInputId}:${skillName}`
GateKey(g, skillName) == << g.currentInputId, skillName >>

\* faulty variant: the invocation records and results survive the reset
startNewInput_keepsRecords(g, inputId) ==
    [ g EXCEPT !.currentInputId = inputId,
               !.hasExecutedAnySkill = FALSE ]

\* faulty variant: the any-skill flag survives the reset
startNewInput_keepsFlag(g, inputId) ==
    [ g EXCEPT !.currentInputId = inputId,
               !.executedSkills = {},
               !.skillResults = EmptyMap ]

startNewInput(g, inputId) ==
    [ g EXCEPT !.currentInputId = inputId,
               !.executedSkills = {},
               !.skillResults = EmptyMap,
               !.hasExecutedAnySkill = FALSE ]

\* faulty variant: per-skill deduplication only, the any-skill flag is never set
canExecute_perSkillOnly(g, skillName) ==
    IF GateKey(g, skillName) \in g.executedSkills
    THEN [ ret |-> FALSE, gate |-> g ]
    ELSE [ ret  |-> TRUE,
           gate |-> [ g EXCEPT !.executedSkills = @ \cup { GateKey(g, skillName) } ] ]

\* faulty variant: a denied call leaves its key in the invocation records
canExecute_recordsDenied(g, skillName) ==
    IF g.hasExecutedAnySkill \/ GateKey(g, skillName) \in g.executedSkills
    THEN [ ret  |-> FALSE,
           gate |-> [ g EXCEPT !.executedSkills = @ \cup { GateKey(g, skillName) } ] ]
    ELSE [ ret  |-> TRUE,
           gate |-> [ g EXCEPT !.executedSkills = @ \cup { GateKey(g, skillName) },
                               !.hasExecutedAnySkill = TRUE ] ]

\* faulty variant: the check without the set
canExecute_noRecord(g, skillName) ==
    IF g.hasExecutedAnySkill \/ GateKey(g, skillName) \in g.executedSkills
    THEN [ ret |-> FALSE, gate |-> g ]
    ELSE [ ret |-> TRUE, gate |-> g ]

\* canExecute: the value returned and the gate afterwards
canExecute(g, skillName) ==
    IF g.hasExecutedAnySkill
    THEN [ ret |-> FALSE, gate |-> g ]
    ELSE IF GateKey(g, skillName) \in g.executedSkills
    THEN [ ret |-> FALSE, gate |-> g ]
    ELSE [ ret  |-> TRUE,
           gate |-> [ g EXCEPT !.executedSkills = @ \cup { GateKey(g, skillName) },
                               !.hasExecutedAnySkill = TRUE ] ]

\* Map.set(key, result)
MapSet(m, k, v) == [ x \in (DOMAIN m) \cup {k} |-> IF x = k THEN v ELSE m[x] ]

\* faulty variant: recording the result releases the gate
markCompleted_releases(g, skillName, result) ==
    [ g EXCEPT !.skillResults = MapSet(@, GateKey(g, skillName), result),
               !.hasExecutedAnySkill = FALSE,
               !.executedSkills = @ \ { GateKey(g, skillName) } ]

markCompleted(g, skillName, result) ==
    [ g EXCEPT !.skillResults = MapSet(@, GateKey(g, skillName), result) ]

isAlreadyExecuted(g, skillName) == GateKey(g, skillName) \in g.executedSkills

\* the generic message of getBlockedMessage
GenericBlocked(skillName) ==
    << "SUCCESS: The ", skillName,
       " operation was already completed successfully in this session. No further action needed." >>

\* the message of getBlockedMessage that carries a cached result
CachedBlocked(result) ==
    << "SUCCESS: Task was already completed successfully. " >>
        \o replaceFirst(result, TaskComplete)
        \o << " No further action needed." >>

\* faulty variant: the cached result is never used
getBlockedMessage_generic(g, skillName) == GenericBlocked(skillName)

getBlockedMessage(g, skillName) ==
    LET key == GateKey(g, skillName)
        has == key \in DOMAIN g.skillResults
    IN  IF has /\ Truthy(g.skillResults[key])
        THEN CachedBlocked(g.skillResults[key])
        ELSE GenericBlocked(skillName)

\* faulty variant: the cached result is dropped once it has been read
getBlockedMessageCall_consumes(g, skillName) ==
    [ ret  |-> getBlockedMessage(g, skillName),
      gate |-> [ g EXCEPT !.skillResults =
                    [ k \in (DOMAIN @) \ { GateKey(g, skillName) } |-> @[k] ] ] ]

\* a call of getBlockedMessage: the message it returns and the gate it leaves
\* (the method reads skillResults and assigns to no field)
getBlockedMessageCall(g, skillName) ==
    [ ret |-> getBlockedMessage(g, skillName), gate |-> g ]

\* ------------------------------------------------------------ skill handlers
\* Each handler (the `process` function of agent.addSkill) is: the gate check,
\* a synchronous part, then a chain of awaited external calls, each of which
\* may fail; every exit records its outcome with markCompleted and returns.

\* the file name the index requests carry
DocName == "bitcoin.pdf"

\* the external calls a handler awaits, in order (list_documents queries each
\* namespace the index reports: one namespace here)
Awaits(skillName) ==
    CASE skillName = "index_document"    -> << "Doc.pdf.parse", "pinecone.search", "pinecone.insertDoc" >>
      [] skillName = "lookup_document"   -> << "pinecone.search" >>
      [] skillName = "purge_documents"   -> << "pinecone.purge", "purgeAllNamespacesDirect" >>
      [] skillName = "get_document_info" -> << "fetch", "response.json" >>
      [] skillName = "send_email"        -> << >>
      [] skillName = "list_documents"    -> << "index.describeIndexStats", "index.namespace.query" >>

\* what the synchronous part of a handler can find before its first await
SyncOutcomes(skillName) ==
    CASE skillName = "index_document" -> { "proceed", "nofile", "throw" }
      [] skillName = "list_documents" -> { "proceed", "nodir", "nopdf", "throw", "nokey" }
      [] OTHER                        -> { "proceed" }

\* how the awaited call number `step` of a handler can end
AwaitOutcomes(skillName, step) ==
    CASE skillName = "index_document" /\ step = 3   -> { "ok", "falsy", "throw" }
      [] skillName = "lookup_document"              -> { "ok", "empty", "throw" }
      [] skillName = "get_document_info" /\ step = 2 -> { "ok", "nodocs", "throw" }
      [] OTHER                                      -> { "ok", "throw" }

\* a handler exit: the string recorded with markCompleted and the value returned
Exit(recorded, returned) == [ recorded |-> recorded, returned |-> returned ]
ExitWith(msg) == Exit(msg, msg)

\* the exits of the synchronous part; "proceed" with no awaited call is the
\* success exit of a handler that awaits nothing
SyncExit(skillName, outcome) ==
    CASE skillName = "index_document" /\ outcome = "nofile" ->
            ExitWith(<< "File resolved path to ", DocName, " does not exist" >>)
      [] skillName = "index_document" /\ outcome = "throw" ->
            ExitWith(<< "Error indexing document: ", "error.message" >>)
      [] skillName = "list_documents" /\ outcome = "nodir" ->
            ExitWith(<< "Data directory does not exist: ", "data" >>)
      [] skillName = "list_documents" /\ outcome = "nopdf" ->
            ExitWith(<< "No PDF documents found in the data directory" >>)
      [] skillName = "list_documents" /\ outcome = "throw" ->
            ExitWith(<< "Error listing documents: ", "error.message" >>)
      [] skillName = "list_documents" /\ outcome = "nokey" ->
            Exit(<< "DOCUMENT LIST COMPLETE:", "summary" >>, << "{result, message}" >>)
      [] skillName = "send_email" /\ outcome = "proceed" ->
            Exit(<< "EMAIL SENT (SIMULATED): Email successfully sent to ", "to" >>,
                 << "{success, data, message}" >>)

\* whether the synchronous part ends the handler
SyncReturns(skillName, outcome) ==
    outcome # "proceed" \/ Awaits(skillName) = << >>

\* whether the handler goes on to its next awaited call after call `step`
AwaitContinues(skillName, step, outcome) ==
    /\ step < Len(Awaits(skillName))
    /\ outcome = "ok"

\* the exits taken when awaited call `step` ends the handler
AwaitExit(skillName, step, outcome) ==
    CASE skillName = "index_document" /\ step = 2 /\ outcome = "throw" ->
            ExitWith(<< "Pinecone connection failed: ", "connError.message" >>)
      [] skillName = "index_document" /\ outcome = "throw" ->
            ExitWith(<< "Error indexing document: ", "error.message" >>)
      [] skillName = "index_document" /\ outcome = "falsy" ->
            ExitWith(<< "Document ", DocName, " indexing failed - no result returned" >>)
      [] skillName = "index_document" /\ outcome = "ok" ->
            ExitWith(<< TaskComplete, " Document ", DocName,
                        " has been successfully indexed in the vector database." >>)
      [] skillName = "lookup_document" /\ outcome = "throw" ->
            ExitWith(<< "Error searching documents: ", "error.message" >>)
      [] skillName = "lookup_document" /\ outcome = "empty" ->
            ExitWith(<< "No relevant content found in the indexed documents." >>)
      [] skillName = "lookup_document" /\ outcome = "ok" ->
            ExitWith(<< "SEARCH COMPLETE: Found relevant content from ", "source", "text" >>)
      [] skillName = "purge_documents" /\ outcome = "throw" ->
            ExitWith(<< "Failed to delete documents: ", "error.message" >>)
      [] skillName = "purge_documents" /\ outcome = "ok" ->
            ExitWith(<< "DELETION COMPLETE: All PDF documents have been successfully removed.",
                        "purged" >>)
      [] skillName = "get_document_info" /\ outcome = "throw" ->
            ExitWith(<< "Error fetching document info: ", "error.message" >>)
      [] skillName = "get_document_info" /\ outcome = "nodocs" ->
            Exit(Undefined, Undefined)
      [] skillName = "get_document_info" /\ outcome = "ok" ->
            Exit(<< "JSON.stringify(result)" >>, << "{result}" >>)
      [] skillName = "list_documents" ->
            Exit(<< "DOCUMENT LIST COMPLETE:", "summary" >>, << "{result, message}" >>)

\* a handler invocation that went through the gate check. step counts the
\* awaited external calls it has issued, marks its markCompleted calls. again,
\* epoch and failed are observations: the same handler had gone through the
\* check before in that gate session; the number of gate resets made before
\* the check; the awaited call the handler last resumed from had thrown.
Invocation(skillName, pc, granted, step, returned) ==
    [ skillName |-> skillName,
      pc        |-> pc,
      granted   |-> granted,
      step      |-> step,
      returned  |-> returned,
      marks     |-> 0,
      epoch     |-> 0,
      again     |-> FALSE,
      failed    |-> FALSE ]

\* faulty variant: the handler only reads the gate before its first await and
\* sets the record after it, so the check and the set are two steps
handlerEnter_setAfterAwait(skillName, g, outcome) ==
    LET can == canExecute(g, skillName) IN
    IF ~can.ret
    THEN [ inv  |-> Invocation(skillName, "returned", FALSE, 0,
                               getBlockedMessage(can.gate, skillName)),
           gate |-> can.gate ]
    ELSE IF SyncReturns(skillName, outcome)
    THEN LET exit == SyncExit(skillName, outcome) IN
         [ inv  |-> [ Invocation(skillName, "returned", TRUE, 0, exit.returned)
                        EXCEPT !.marks = 1 ],
           gate |-> markCompleted(can.gate, skillName, exit.recorded) ]
    ELSE [ inv  |-> Invocation(skillName, "awaiting", TRUE, 1, << >>),
           gate |-> g ]

\* faulty variant: the handler goes on although the gate denied it
handlerEnter_ignoresGate(skillName, g, outcome) ==
    LET can == canExecute(g, skillName) IN
    IF SyncReturns(skillName, outcome)
    THEN LET exit == SyncExit(skillName, outcome) IN
         [ inv  |-> [ Invocation(skillName, "returned", can.ret, 0, exit.returned)
                        EXCEPT !.marks = 1 ],
           gate |-> markCompleted(can.gate, skillName, exit.recorded) ]
    ELSE [ inv  |-> Invocation(skillName, "awaiting", can.ret, 1, << >>),
           gate |-> can.gate ]

\* faulty variant: the denied branch records the blocked message as a result
handlerEnter_marksDenied(skillName, g, outcome) ==
    LET can == canExecute(g, skillName) IN
    IF ~can.ret
    THEN [ inv  |-> [ Invocation(skillName, "returned", FALSE, 0,
                                 getBlockedMessage(can.gate, skillName))
                        EXCEPT !.marks = 1 ],
           gate |-> markCompleted(can.gate, skillName,
                                  getBlockedMessage(can.gate, skillName)) ]
    ELSE IF SyncReturns(skillName, outcome)
    THEN LET exit == SyncExit(skillName, outcome) IN
         [ inv  |-> [ Invocation(skillName, "returned", TRUE, 0, exit.returned)
                        EXCEPT !.marks = 1 ],
           gate |-> markCompleted(can.gate, skillName, exit.recorded) ]
    ELSE [ inv  |-> Invocation(skillName, "awaiting", TRUE, 1, << >>),
           gate |-> can.gate ]

\* a handler is invoked: the gate check at its head, with the denied branch
\* (return getBlockedMessage), and the synchronous part up to the first await;
\* gives the invocation and the gate afterwards
handlerEnter(skillName, g, outcome) ==
    LET can == canExecute(g, skillName) IN
    IF ~can.ret
    THEN [ inv  |-> Invocation(skillName, "returned", FALSE, 0,
                               getBlockedMessage(can.gate, skillName)),
           gate |-> can.gate ]
    ELSE IF SyncReturns(skillName, outcome)
    THEN LET exit == SyncExit(skillName, outcome) IN
         [ inv  |-> [ Invocation(skillName, "returned", TRUE, 0, exit.returned)
                        EXCEPT !.marks = 1 ],
           gate |-> markCompleted(can.gate, skillName, exit.recorded) ]
    ELSE [ inv  |-> Invocation(skillName, "awaiting", TRUE, 1, << >>),
           gate |-> can.gate ]

\* faulty variant: a caught exception releases the gate for another attempt
handlerResume_rollsBack(inv, g, outcome) ==
    IF AwaitContinues(inv.skillName, inv.step, outcome)
    THEN [ inv |-> [ inv EXCEPT !.step = @ + 1 ], gate |-> g ]
    ELSE LET exit == AwaitExit(inv.skillName, inv.step, outcome)
             done == [ inv EXCEPT !.pc = "returned", !.returned = exit.returned,
                                  !.marks = @ + 1 ]
         IN  IF outcome = "throw"
             THEN [ inv  |-> done,
                    gate |-> [ g EXCEPT !.executedSkills = @ \ { GateKey(g, inv.skillName) },
                                        !.hasExecutedAnySkill = FALSE ] ]
             ELSE [ inv  |-> done,
                    gate |-> markCompleted(g, inv.skillName, exit.recorded) ]

\* faulty variant: a caught exception is returned without being recorded
handlerResume_silentThrow(inv, g, outcome) ==
    IF AwaitContinues(inv.skillName, inv.step, outcome)
    THEN [ inv |-> [ inv EXCEPT !.step = @ + 1 ], gate |-> g ]
    ELSE LET exit == AwaitExit(inv.skillName, inv.step, outcome) IN
         IF outcome = "throw"
         THEN [ inv  |-> [ inv EXCEPT !.pc = "returned", !.returned = exit.returned ],
                gate |-> g ]
         ELSE [ inv  |-> [ inv EXCEPT !.pc = "returned", !.returned = exit.returned,
                                      !.marks = @ + 1 ],
                gate |-> markCompleted(g, inv.skillName, exit.recorded) ]

\* faulty variant: a handler that starts over from its first external call
\* when a later one throws
handlerResume_retriesOnThrow(inv, g, outcome) ==
    IF AwaitContinues(inv.skillName, inv.step, outcome)
    THEN [ inv |-> [ inv EXCEPT !.step = @ + 1 ], gate |-> g ]
    ELSE IF outcome = "throw" /\ inv.step > 1
    THEN [ inv |-> [ inv EXCEPT !.step = 1 ], gate |-> g ]
    ELSE LET exit == AwaitExit(inv.skillName, inv.step, outcome) IN
         [ inv  |-> [ inv EXCEPT !.pc = "returned", !.returned = exit.returned,
                                 !.marks = @ + 1 ],
           gate |-> markCompleted(g, inv.skillName, exit.recorded) ]

\* the awaited call of an invocation ends with `outcome`: the handler runs on
\* to its next await or records its outcome and returns
handlerResume(inv, g, outcome) ==
    IF AwaitContinues(inv.skillName, inv.step, outcome)
    THEN [ inv |-> [ inv EXCEPT !.step = @ + 1 ], gate |-> g ]
    ELSE LET exit == AwaitExit(inv.skillName, inv.step, outcome) IN
         [ inv  |-> [ inv EXCEPT !.pc = "returned", !.returned = exit.returned,
                                 !.marks = @ + 1 ],
           gate |-> markCompleted(g, inv.skillName, exit.recorded) ]

\* a message produced by getBlockedMessage
IsBlockedMessage(m) ==
    /\ Len(m) >= 1
    /\ m[1] \in { "SUCCESS: The ", "SUCCESS: Task was already completed successfully. " }

\* ------------------------------------------------------------------- routes
Lit(name) == [ kind |-> "lit", name |-> name ]
Param(name) == [ kind |-> "param", name |-> name ]

\* the POST routes in the order app.post registers them
Routes ==
    << [ pattern |-> << Lit("api"), Lit("agent"), Lit("skills"), Param("skillName") >>,
         handler |-> "executeSkill" ],
       [ pattern |-> << Lit("api"), Lit("agent"), Lit("skills"), Lit("execute-all") >>,
         handler |-> "executeAll" ],
       [ pattern |-> << Lit("api"), Lit("agent"), Lit("prompt") >>,
         handler |-> "prompt" ] >>

\* Express path matching: same number of segments, a parameter matches any
RouteMatches(pattern, path) ==
    /\ Len(pattern) = Len(path)
    /\ \A i \in 1..Len(path) :
          pattern[i].kind = "param" \/ pattern[i].name = path[i]

\* the first registered route that matches handles the request (no handler
\* calls next())
Dispatch(path) ==
    LET hits == { i \in 1..Len(Routes) : RouteMatches(Routes[i].pattern, path) }
    IN  IF hits = {} THEN "notFound"
        ELSE Routes[CHOOSE i \in hits : \A j \in hits : i <= j].handler

SkillPath(seg) == << "api", "agent", "skills", seg >>
PromptPath == << "api", "agent", "prompt" >>

\* ------------------------------------------------------------------- state
VARIABLES
    skillGate,  \* the SkillExecutionGate singleton shared by every caller
    obs,        \* history of the gate calls made so far (observation only)
    reqs,       \* the HTTP requests of the server, by arrival number
    invs        \* the handler invocations waiting on an external call, by request

vars == << skillGate, obs, reqs, invs >>

\* --------------------------------------------- gate-level inputs (bounded)
InputIdPool == << "s1", "s2", "s3", "s4" >>
InputIds == { InputIdPool[i] : i \in 1..NumIds }
\* the skill names the gate-level specification passes to the gate
Names == { "index_document", "lookup_document" }

\* the input ids the routes generate (`api-${Date.now()}-${random}`), one per
\* reset: the timestamp and the random suffix make them distinct
ApiIdPool == << "api-1", "api-2", "api-3", "api-4" >>
ApiIds == { ApiIdPool[n] : n \in 1..MaxRequests }
AllIds == InputIds \cup ApiIds \cup { NoInput }
Keys == AllIds \X Skills

\* result strings handed to markCompleted at gate level: '', 'X', 'X' behind
\* the TASK COMPLETE decoration, and a string with the decoration inside
Results == { << >>, << "X" >>, << TaskComplete, "X" >>, << "X", TaskComplete, "Y" >> }

\* ------------------------------------------------------------- observation
\* the last step returned from no handler, sent no response
NoReturn == [ req |-> 0, inv |-> Invocation("", "none", FALSE, 0, << >>) ]
NoExchange ==
    [ handler |-> "none", path |-> << >>, body |-> << >>, worked |-> 0,
      response |-> [ status |-> 0, success |-> FALSE, data |-> [ error |-> << >> ] ] ]

NoOp == [ op |-> "none", arg |-> "", ret |-> FALSE ]
NoBlocked == [ kept |-> TRUE, repeat |-> FALSE, prev |-> << >> ]

ObsInit ==
    [ sessions   |-> 0,
      calls      |-> << >>,
      marks      |-> 0,
      recorded   |-> EmptyMap,
      prevDenied |-> {},
      lastOp     |-> NoOp,
      blocked    |-> NoBlocked,
      grants     |-> [ k \in Keys |-> 0 ],
      usedIds    |-> { NoInput },
      reused     |-> FALSE,
      checked    |-> {},
      granted    |-> 0,
      invocations |-> 0,
      lastReturn   |-> NoReturn,
      lastResponse |-> NoExchange ]

\* skills granted and later denied in a sequence of canExecute calls
GrantedThenDenied(calls) ==
    { calls[i].skillName : i \in { n \in 1..Len(calls) :
        /\ calls[n].ret
        /\ \E m \in (n + 1)..Len(calls) :
              calls[m].skillName = calls[n].skillName /\ ~calls[m].ret } }

ObsStart(o, inputId) ==
    [ o EXCEPT !.sessions   = @ + 1,
               !.prevDenied = GrantedThenDenied(o.calls),
               !.calls      = << >>,
               !.marks      = 0,
               !.recorded   = EmptyMap,
               !.lastOp     = [ op |-> "startNewInput", arg |-> inputId, ret |-> FALSE ],
               !.blocked    = NoBlocked,
               !.reused     = @ \/ inputId \in o.usedIds,
               !.usedIds    = @ \cup { inputId } ]

ObsCan(o, key, ret) ==
    [ o EXCEPT !.calls  = Append(@, [ skillName |-> key[2], ret |-> ret ]),
               !.lastOp = [ op |-> "canExecute", arg |-> key[2], ret |-> ret ],
               !.blocked = NoBlocked,
               !.grants = IF ret THEN [ @ EXCEPT ![key] = @ + 1 ] ELSE @ ]

ObsMark(o, skillName, result) ==
    [ o EXCEPT !.marks  = @ + 1,
               !.recorded = MapSet(@, skillName, result),
               !.lastOp = [ op |-> "markCompleted", arg |-> skillName, ret |-> FALSE ],
               !.blocked = NoBlocked ]

\* of a getBlockedMessage call also: whether it left the gate as it was, and,
\* when the call before it was getBlockedMessage for the same skill, the
\* message that one returned
ObsBlocked(o, skillName, msg, kept) ==
    [ o EXCEPT !.lastOp = [ op |-> "getBlockedMessage", arg |-> skillName, ret |-> msg ],
               !.blocked = [ kept   |-> kept,
                             repeat |-> (o.lastOp.op = "getBlockedMessage"
                                         /\ o.lastOp.arg = skillName),
                             prev   |-> IF o.lastOp.op = "getBlockedMessage"
                                           /\ o.lastOp.arg = skillName
                                        THEN o.lastOp.ret ELSE << >> ] ]

\* of the handlers: the skills whose handlers went through the gate check
\* since the last reset, how many handlers the gate let through since, and
\* what the last step returned and responded
ObsStep(o) == [ o EXCEPT !.lastReturn = NoReturn, !.lastResponse = NoExchange ]
ObsReset(o) == [ ObsStep(o) EXCEPT !.checked = {}, !.granted = 0, !.sessions = @ + 1 ]
ObsReturned(o, r, inv) == [ ObsStep(o) EXCEPT !.lastReturn = [ req |-> r, inv |-> inv ] ]
ObsInvoked(o, r, inv) ==
    [ (IF inv.pc = "returned" THEN ObsReturned(o, r, inv) ELSE ObsStep(o))
        EXCEPT !.checked = @ \cup { inv.skillName },
               !.granted = IF inv.granted THEN @ + 1 ELSE @,
               !.invocations = @ + 1 ]

\* ----------------------------------------------------------------- initial
IdleRequest ==
    [ st |-> "idle", handler |-> "none", path |-> << >>, body |-> << >>,
      toolCalls |-> 0, worked |-> 0 ]

Init ==
    /\ skillGate = NewGate
    /\ obs = ObsInit
    /\ reqs = [ r \in 1..MaxRequests |-> IdleRequest ]
    /\ invs = [ r \in 1..MaxRequests |-> << >> ]

\* ------------------------------------------------- gate-level specification
\* any caller, any argument: the gate driven directly through its methods
GStartNewInput ==
    \E inputId \in InputIds :
        /\ obs.sessions < MaxSessions
        /\ skillGate' = startNewInput(skillGate, inputId)
        /\ obs' = ObsStart(obs, inputId)
        /\ UNCHANGED << reqs, invs >>

GCanExecute ==
    \E skillName \in Names :
        /\ Len(obs.calls) < MaxCalls
        /\ skillGate' = canExecute(skillGate, skillName).gate
        /\ obs' = ObsCan(obs, GateKey(skillGate, skillName),
                         canExecute(skillGate, skillName).ret)
        /\ UNCHANGED << reqs, invs >>

GMarkCompleted ==
    \E skillName \in Names, result \in Results :
        /\ obs.marks < MaxMarks
        /\ skillGate' = markCompleted(skillGate, skillName, result)
        /\ obs' = ObsMark(obs, skillName, result)
        /\ UNCHANGED << reqs, invs >>

GGetBlockedMessage ==
    \E skillName \in Names :
        /\ skillGate' = getBlockedMessageCall(skillGate, skillName).gate
        /\ obs' = ObsBlocked(obs, skillName,
                             getBlockedMessageCall(skillGate, skillName).ret,
                             skillGate' = skillGate)
        /\ UNCHANGED << reqs, invs >>

GateNext ==
    \/ GStartNewInput
    \/ GCanExecute
    \/ GMarkCompleted
    \/ GGetBlockedMessage

GateSpec == Init /\ [][GateNext]_vars

Remove(seq, n) == SubSeq(seq, 1, n - 1) \o SubSeq(seq, n + 1, Len(seq))

\* ---------------------------------------------- handler-level specification
\* The agent's skills driven directly: any caller resets the gate and invokes
\* any skill's process function at any time; an invocation that waits on an
\* external call is resumed at any later time. The invocations are kept in
\* invs[1].
HStartNewInput ==
    \E inputId \in InputIds :
        /\ obs.sessions < MaxSessions
        /\ skillGate' = startNewInput(skillGate, inputId)
        /\ obs' = ObsReset(obs)
        /\ UNCHANGED << reqs, invs >>

HInvoke ==
    \E skillName \in Skills :
        \E outcome \in SyncOutcomes(skillName) :
            LET e == handlerEnter(skillName, skillGate, outcome)
                inv == [ e.inv EXCEPT !.again = (skillName \in obs.checked),
                                      !.epoch = obs.sessions ]
            IN  /\ obs.invocations < MaxHandlerCalls
                /\ skillGate' = e.gate
                /\ obs' = ObsInvoked(obs, 0, inv)
                /\ invs' = IF inv.pc = "awaiting"
                           THEN [ invs EXCEPT ![1] = Append(@, inv) ]
                           ELSE invs
                /\ UNCHANGED reqs

HResume(n) ==
    /\ invs[1][n].pc = "awaiting"
    /\ \E outcome \in AwaitOutcomes(invs[1][n].skillName, invs[1][n].step) :
        LET res == handlerResume(invs[1][n], skillGate, outcome)
            e == [ res EXCEPT !.inv.failed = (outcome = "throw") ]
        IN
        /\ skillGate' = e.gate
        /\ IF e.inv.pc = "returned"
           THEN /\ invs' = [ invs EXCEPT ![1] = Remove(@, n) ]
                /\ obs' = ObsReturned(obs, 0, e.inv)
           ELSE /\ invs' = [ invs EXCEPT ![1][n] = e.inv ]
                /\ obs' = ObsStep(obs)
        /\ UNCHANGED reqs

HandlerNext ==
    \/ HStartNewInput
    \/ HInvoke
    \/ \E n \in 1..Len(invs[1]) : HResume(n)

HandlerSpec == Init /\ [][HandlerNext]_vars

\* ------------------------------------------------------ server specification
\* The Express server: requests arrive at any time, every handler runs on the
\* one event loop and yields at its awaits, so the steps of different requests
\* interleave at those points. All of them share skillGate. invs holds the
\* handler invocations that wait on an external call; an invocation that
\* returns and a request that is answered leave the model, the last of each
\* being kept in obs.

\* the skills the requests and the tool calls of this specification name
ServerSkills == { "index_document", "lookup_document", "purge_documents" }

\* the last path segment of a POST /api/agent/skills/... request
SkillSegments == ServerSkills \cup { "execute-all" }

\* the skillsToExecute arrays the execute-all requests carry (skill names, in
\* order)
Batches == { << "index_document", "lookup_document" >>,
             << "lookup_document", "purge_documents" >> }

\* req.body of a skill request: {} or an object holding the skill's
\* parameters; of an execute-all request: {} or {skillsToExecute: [...]}
NoParameters == << >>
WithParameters == << "parameters" >>
SkillBodies(seg) ==
    IF seg = "execute-all" THEN Batches \cup { NoParameters }
    ELSE { NoParameters, WithParameters }

\* the next request arrives
Arrives(r) ==
    /\ reqs[r].st = "idle"
    /\ \A q \in 1..(r - 1) : reqs[q].st # "idle"

\* req.params.skillName
SkillParam(req) == IF Len(req.path) >= 4 THEN req.path[4] ELSE ""

\* res.json({success: true, data: {skill, parameters, result, timestamp}})
SkillResponse(skillName, result) ==
    [ status |-> 200, success |-> TRUE,
      data |-> [ skill |-> skillName, result |-> result ] ]
\* res.status(code).json({success: false, error})
ErrorResponse(code, message) ==
    [ status |-> code, success |-> FALSE, data |-> [ error |-> message ] ]
\* res.json({success: true, data: {message, response, timestamp}})
PromptResponse ==
    [ status |-> 200, success |-> TRUE, data |-> [ response |-> << "response" >> ] ]

\* the response to a request is sent
Exchange(req, response) ==
    [ handler |-> req.handler, path |-> req.path, body |-> req.body,
      worked |-> req.worked, response |-> response ]
EndedRequest == [ IdleRequest EXCEPT !.st = "ended" ]

\* a handler invocation of request r returns: to the skill route's
\* continuation after await BookAssistantAgent.call(...), which responds, or
\* to the language model's loop
Returns(r, inv, o) ==
    IF reqs[r].handler = "executeSkill"
    THEN /\ reqs' = [ reqs EXCEPT ![r] = EndedRequest ]
         /\ obs' = [ o EXCEPT !.lastResponse =
                Exchange(reqs[r], SkillResponse(inv.skillName, inv.returned)) ]
    ELSE /\ reqs' = [ reqs EXCEPT ![r].toolCalls = @ + 1 ]
         /\ obs' = o

\* the skill's process function is invoked on behalf of request r; worked
\* counts the invocations of the request that got to an external call
Invoke(r, skillName, outcome) ==
    LET e == handlerEnter(skillName, skillGate, outcome)
        inv == [ e.inv EXCEPT !.again = (skillName \in obs.checked),
                                      !.epoch = obs.sessions ]
        o == ObsInvoked(obs, r, inv)
    IN  /\ skillGate' = e.gate
        /\ IF inv.pc = "returned"
           THEN /\ Returns(r, inv, o)
                /\ UNCHANGED invs
           ELSE /\ invs' = [ invs EXCEPT ![r] = Append(@, inv) ]
                /\ reqs' = [ reqs EXCEPT ![r].st =
                                IF @ = "calling" THEN "called" ELSE @,
                             ![r].worked = @ + 1 ]
                /\ obs' = o

\* POST /api/agent/skills/:skillName: reset the gate for a new input id, then
\* await BookAssistantAgent.call(skillName, parameters)
ReceiveSkillRequest(r) ==
    \E seg \in SkillSegments :
        \E body \in SkillBodies(seg) :
            /\ Arrives(r)
            /\ Dispatch(SkillPath(seg)) = "executeSkill"
            /\ skillGate' = startNewInput(skillGate, ApiIdPool[r])
            /\ obs' = ObsReset(obs)
            /\ reqs' = [ reqs EXCEPT ![r] =
                  [ IdleRequest EXCEPT !.st = "calling", !.handler = "executeSkill",
                    !.path = SkillPath(seg), !.body = body ] ]
            /\ UNCHANGED invs

\* how the synchronous part of the dispatched handler can end: index_document
\* with document_path undefined throws at path.isAbsolute(document_path)
DispatchOutcomes(req) ==
    IF SkillParam(req) = "index_document" /\ req.body = NoParameters
    THEN { "throw" }
    ELSE SyncOutcomes(SkillParam(req))

\* Agent.call reaches the skill's process function (whether the SDK gets
\* there in the same tick or after awaits of its own is not decided by this
\* repository: other requests may or may not run in between)
SkillDispatch(r) ==
    /\ reqs[r].st = "calling"
    /\ SkillParam(reqs[r]) \in Skills
    /\ \E outcome \in DispatchOutcomes(reqs[r]) :
            Invoke(r, SkillParam(reqs[r]), outcome)

\* Agent.call for a name that is no skill of the agent: the SDK either throws
\* (caught: 500) or resolves to undefined
UnknownSkillReturns(r) ==
    \E throws \in BOOLEAN :
        /\ reqs[r].st = "calling"
        /\ SkillParam(reqs[r]) \notin Skills
        /\ reqs' = [ reqs EXCEPT ![r] = EndedRequest ]
        /\ obs' = [ ObsStep(obs) EXCEPT !.lastResponse = Exchange(reqs[r],
                        IF throws
                        THEN ErrorResponse(500, << "error.message" >>)
                        ELSE SkillResponse(SkillParam(reqs[r]), Undefined)) ]
        /\ UNCHANGED << skillGate, invs >>

\* POST /api/agent/prompt: 400 without a message; else reset the gate and
\* await BookAssistantAgent.prompt(message)
ReceivePrompt(r) ==
    \E hasMessage \in BOOLEAN :
        LET req == [ IdleRequest EXCEPT !.st = "prompting", !.handler = "prompt",
                                        !.path = PromptPath,
                                        !.body = IF hasMessage THEN << "message" >>
                                                 ELSE << >> ]
        IN
        /\ Arrives(r)
        /\ Dispatch(PromptPath) = "prompt"
        /\ IF hasMessage
           THEN /\ skillGate' = startNewInput(skillGate, ApiIdPool[r])
                /\ obs' = ObsReset(obs)
                /\ reqs' = [ reqs EXCEPT ![r] = req ]
           ELSE /\ UNCHANGED skillGate
                /\ obs' = [ ObsStep(obs) EXCEPT !.lastResponse =
                       Exchange(req, ErrorResponse(400, << "message is required" >>)) ]
                /\ reqs' = [ reqs EXCEPT ![r] = EndedRequest ]
        /\ UNCHANGED invs

\* the language model driving agent.prompt issues a tool call: the skill's
\* process function is invoked; earlier tool calls of the turn may still be
\* in flight
ToolCall(r) ==
    /\ reqs[r].st = "prompting"
    /\ reqs[r].toolCalls + Len(invs[r]) < MaxToolCalls
    /\ \E skillName \in ServerSkills :
        \E outcome \in SyncOutcomes(skillName) :
            Invoke(r, skillName, outcome)

\* an awaited external call of a handler ends and the handler runs on to its
\* next await or to its return
HandlerResume(r, n) ==
    /\ invs[r][n].pc = "awaiting"
    /\ \E outcome \in AwaitOutcomes(invs[r][n].skillName, invs[r][n].step) :
        LET res == handlerResume(invs[r][n], skillGate, outcome)
            e == [ res EXCEPT !.inv.failed = (outcome = "throw") ]
        IN
        /\ skillGate' = e.gate
        /\ IF e.inv.pc = "returned"
           THEN /\ invs' = [ invs EXCEPT ![r] = Remove(@, n) ]
                /\ Returns(r, e.inv, ObsReturned(obs, r, e.inv))
           ELSE /\ invs' = [ invs EXCEPT ![r][n] = e.inv ]
                /\ obs' = ObsStep(obs)
                /\ UNCHANGED reqs

\* agent.prompt resolves once the model stops calling tools and every tool
\* call it made has returned
PromptRespond(r) ==
    /\ reqs[r].st = "prompting"
    /\ Len(invs[r]) = 0
    /\ reqs' = [ reqs EXCEPT ![r] = EndedRequest ]
    /\ obs' = [ ObsStep(obs) EXCEPT !.lastResponse = Exchange(reqs[r], PromptResponse) ]
    /\ UNCHANGED << skillGate, invs >>

Next ==
    \/ \E r \in 1..MaxRequests : ReceiveSkillRequest(r)
    \/ \E r \in 1..MaxRequests : SkillDispatch(r)
    \/ \E r \in 1..MaxRequests : UnknownSkillReturns(r)
    \/ \E r \in 1..MaxRequests : ReceivePrompt(r)
    \/ \E r \in 1..MaxRequests : ToolCall(r)
    \/ \E r \in 1..MaxRequests : \E n \in 1..Len(invs[r]) : HandlerResume(r, n)
    \/ \E r \in 1..MaxRequests : PromptRespond(r)

Spec == Init /\ [][Next]_vars

\* ------------------------------------------- purgeAllNamespacesDirect alone
\* The helper of purge_documents called on its own, against an index that
\* reports any list of namespaces and fails any of the deletions. The call in
\* flight is kept in invs[1].
MaxNamespaces == 3
NamespacePool == { << "ns", i >> : i \in 1..MaxNamespaces }

\* Object.keys(stats.namespaces): distinct names in some order
NamespaceLists ==
    { s \in UNION { [ 1..k -> NamespacePool ] : k \in 0..MaxNamespaces } :
        \A i, j \in DOMAIN s : i # j => s[i] # s[j] }

\* one activation of purgeAllNamespacesDirect: pc is the await it is at, or
\* "returned" / "thrown"; attempts lists the namespaces deleteAll was called
\* on, outcomes (an observation) whether each of the calls resolved
PurgeCall(pc) ==
    [ fn |-> "purgeAllNamespacesDirect", pc |-> pc, namespaces |-> << >>,
      i |-> 0, attempts |-> << >>, outcomes |-> << >>, purged |-> << >>,
      error |-> << >> ]

\* the call up to its first await
purgeEnter(hasKey) ==
    IF ~hasKey
    THEN [ PurgeCall("thrown") EXCEPT !.error = << "Missing PINECONE_API_KEY" >> ]
    ELSE PurgeCall("describeIndexStats")

\* the for loop arrives at namespace i: await deleteAll on it, or past the
\* last one return { purged }
purgeLoop(c, i) ==
    IF i <= Len(c.namespaces)
    THEN [ c EXCEPT !.pc = "deleteAll", !.i = i,
                    !.attempts = Append(@, c.namespaces[i]) ]
    ELSE [ c EXCEPT !.pc = "returned", !.i = i ]

\* describeIndexStats settles: a rejection leaves the function, else the
\* loop starts on the reported namespaces
purgeStats(c, ok, namespaces) ==
    IF ~ok
    THEN [ c EXCEPT !.pc = "thrown", !.error = << "describeIndexStats failed" >> ]
    ELSE purgeLoop([ c EXCEPT !.namespaces = namespaces ], 1)

\* faulty variant: the first failed deletion ends the loop
purgeDeleted_stopsOnFailure(c, ok) ==
    LET o == [ c EXCEPT !.outcomes = Append(@, ok) ] IN
    IF ok
    THEN purgeLoop([ o EXCEPT !.purged = Append(@, c.namespaces[c.i]) ], c.i + 1)
    ELSE [ o EXCEPT !.pc = "returned" ]

\* deleteAll on namespace i settles: purged.push(ns) or the catch that only
\* warns, then the next namespace
purgeDeleted(c, ok) ==
    LET o == [ c EXCEPT !.outcomes = Append(@, ok) ] IN
    IF ok
    THEN purgeLoop([ o EXCEPT !.purged = Append(@, c.namespaces[c.i]) ], c.i + 1)
    ELSE purgeLoop(o, c.i + 1)

PCall ==
    \E hasKey \in BOOLEAN :
        /\ \/ invs[1] = << >>
           \/ Len(invs[1]) = 1 /\ invs[1][1].pc \in { "returned", "thrown" }
        /\ invs' = [ invs EXCEPT ![1] = << purgeEnter(hasKey) >> ]
        /\ UNCHANGED << skillGate, obs, reqs >>

PStats ==
    \E ok \in BOOLEAN, namespaces \in NamespaceLists :
        /\ Len(invs[1]) = 1
        /\ invs[1][1].pc = "describeIndexStats"
        /\ invs' = [ invs EXCEPT ![1] = << purgeStats(invs[1][1], ok, namespaces) >> ]
        /\ UNCHANGED << skillGate, obs, reqs >>

PDeleted ==
    \E ok \in BOOLEAN :
        /\ Len(invs[1]) = 1
        /\ invs[1][1].pc = "deleteAll"
        /\ invs' = [ invs EXCEPT ![1] = << purgeDeleted(invs[1][1], ok) >> ]
        /\ UNCHANGED << skillGate, obs, reqs >>

PurgeNext ==
    \/ PCall
    \/ PStats
    \/ PDeleted

PurgeSpec == Init /\ [][PurgeNext]_vars

\* ------------------------------------------------------------------ claims
\* number of granted calls in a sequence of canExecute calls
NumGranted(calls) == Cardinality({ i \in 1..Len(calls) : calls[i].ret })

\* C1: after startNewInput(S), canExecute(K) and then canExecute(K) again,
\* with no startNewInput in between, return true and then false.
C1_TrueThenFalse ==
    (obs.sessions > 0 /\ Len(obs.calls) >= 2
        /\ obs.calls[1].skillName = obs.calls[2].skillName)
    => (obs.calls[1].ret /\ ~obs.calls[2].ret)

C1_Witness ==
    /\ obs.sessions > 0
    /\ Len(obs.calls) >= 2
    /\ obs.calls[1].skillName = obs.calls[2].skillName
    /\ obs.calls[1].ret
    /\ ~obs.calls[2].ret

\* C2: strict policy: once canExecute has returned true in the current
\* session, every later canExecute call, for the same skill or any other,
\* returns false until the next startNewInput.
C2_StrictAfterGrant ==
    \A i, j \in 1..Len(obs.calls) :
        (i < j /\ obs.calls[i].ret) => ~obs.calls[j].ret

C2_Witness ==
    /\ Len(obs.calls) >= 2
    /\ obs.calls[1].ret
    /\ obs.calls[2].skillName # obs.calls[1].skillName
    /\ ~obs.calls[2].ret

\* C3: right after startNewInput(S2) the invocation records and the cached
\* results are empty, the any-skill flag is cleared and the active id is S2;
\* the first canExecute after it returns true for every skill name, also for
\* one granted and then denied in the previous session.
C3_ResetThenGrant ==
    /\ obs.lastOp.op = "startNewInput" =>
          /\ skillGate.executedSkills = {}
          /\ DOMAIN skillGate.skillResults = {}
          /\ ~skillGate.hasExecutedAnySkill
          /\ skillGate.currentInputId = obs.lastOp.arg
    /\ (obs.sessions > 0 /\ Len(obs.calls) >= 1) => obs.calls[1].ret

C3_Witness ==
    /\ obs.sessions >= 2
    /\ Len(obs.calls) = 1
    /\ obs.calls[1].ret
    /\ obs.calls[1].skillName \in obs.prevDenied

\* grants of one session id, over all skill names
GrantsOfId(id) ==
    LET RECURSIVE Sum(_)
        Sum(S) == IF S = {} THEN 0
                  ELSE LET k == CHOOSE x \in S : TRUE
                       IN  obs.grants[<< id, k >>] + Sum(S \ {k})
    IN  Sum(Skills)

\* C4 (as stated): over every sequence of startNewInput (ids fresh or already
\* used), canExecute and markCompleted calls, canExecute returns true at most
\* once per (sessionId, skillName) key and at most once per session id.
C4_AtMostOncePerKey ==
    /\ \A k \in Keys : obs.grants[k] <= 1
    /\ \A id \in AllIds : GrantsOfId(id) <= 1

\* C4 (amended): between two consecutive startNewInput calls canExecute
\* returns true at most once over all skill names; and as long as no
\* startNewInput was given an id already used, it returns true at most once
\* per (sessionId, skillName) key and at most once per session id.
C4_AtMostOncePerSession ==
    /\ NumGranted(obs.calls) <= 1
    /\ ~obs.reused => C4_AtMostOncePerKey

C4_Witness ==
    /\ ~obs.reused
    /\ obs.sessions >= 1
    /\ Cardinality({ k \in Keys : obs.grants[k] = 1 }) >= 2
    /\ Len(obs.calls) >= 2
    /\ NumGranted(obs.calls) = 1

\* C5: when the handler of a skill is invoked again in a gate session in which
\* it went through the gate check before, with no startNewInput in between,
\* the later invocation is denied, issues no external call and returns a
\* blocked message; an invocation that waits on an external call is never such
\* a repeated one, and the gate lets at most one handler through per session.
C5_SecondInvocationBlocked ==
    /\ obs.lastReturn.inv.again =>
          /\ ~obs.lastReturn.inv.granted
          /\ obs.lastReturn.inv.step = 0
          /\ IsBlockedMessage(obs.lastReturn.inv.returned)
    /\ \A n \in 1..Len(invs[1]) : ~invs[1][n].again /\ invs[1][n].granted
    /\ obs.granted <= 1

\* index_document invoked twice in one session: the first one let through and
\* waiting on an external call or done, the second one just returned blocked
C5_Witness ==
    /\ obs.lastReturn.inv.again
    /\ obs.lastReturn.inv.skillName = "index_document"
    /\ IsBlockedMessage(obs.lastReturn.inv.returned)
    /\ obs.granted = 1
    /\ obs.sessions >= 1

\* C6 (as stated): in one POST /api/agent/prompt request at most one skill
\* handler gets to its external work, whatever other requests do meanwhile.
C6_OneHandlerPerTurn ==
    \A r \in 1..MaxRequests : reqs[r].handler = "prompt" => reqs[r].worked <= 1

C8_BatchHandlerServes ==
    \A r \in 1..MaxRequests :
        (reqs[r].path = SkillPath("execute-all") /\ reqs[r].body \in Batches)
        => reqs[r].handler = "executeAll"

\* the response to an execute-all request holds one result item per entry
HasResultPerEntry(x) ==
    /\ "results" \in DOMAIN x.response.data
    /\ Len(x.response.data.results) = Len(x.body)

\* C9 (as stated): the response to an execute-all batch of two or more
\* entries holds the first entry's own result and the blocked message for
\* every later entry.
C9_OnlyFirstEntryRuns ==
    (obs.lastResponse.path = SkillPath("execute-all") /\ Len(obs.lastResponse.body) >= 2)
    => /\ HasResultPerEntry(obs.lastResponse)
       /\ ~IsBlockedMessage(obs.lastResponse.response.data.results[1])
       /\ \A i \in 2..Len(obs.lastResponse.body) :
             IsBlockedMessage(obs.lastResponse.response.data.results[i])

\* C10 (as stated): the response to an execute-all batch of distinct skills
\* holds each listed skill's own output.
C10_EveryEntryRuns ==
    (obs.lastResponse.path = SkillPath("execute-all") /\ Len(obs.lastResponse.body) >= 2)
    => /\ HasResultPerEntry(obs.lastResponse)
       /\ \A i \in 1..Len(obs.lastResponse.body) :
             ~IsBlockedMessage(obs.lastResponse.response.data.results[i])

\* C11 (as stated): index_document and then lookup_document called directly on
\* the agent, one after the other, with no startNewInput made by the caller:
\* the second one too is let through and returns its own result.
C11_BothDirectCallsWork ==
    ( /\ obs.sessions = 0
      /\ obs.invocations = 2
      /\ obs.checked = { "index_document", "lookup_document" }
      /\ Len(invs[1]) = 0
      /\ obs.lastReturn.inv.skillName = "lookup_document" )
    => /\ obs.lastReturn.inv.granted
       /\ ~IsBlockedMessage(obs.lastReturn.inv.returned)

\* --------------------------------------------------------- chat specification
\* Chat mode (main with argument 'chat'): runChat hands every line typed by
\* the user to handleUserInput. A turn is kept in reqs like a request; the gate
\* is the one the agent module creates, and no code of chat mode resets it.

\* the skill name handleUserInput calls directly on a delete intent
DeleteSkill == "purge_books"

\* rl.on('line'): handleUserInput up to its first await; an empty line returns
\* at once, a delete intent goes to the direct call, anything else to
\* chat.prompt(input).stream()
ChatLine(r) ==
    \E kind \in { "empty", "delete", "prompt" } :
        /\ Arrives(r)
        /\ reqs' = [ reqs EXCEPT ![r] =
              IF kind = "empty" THEN EndedRequest
              ELSE [ IdleRequest EXCEPT
                        !.st = IF kind = "delete" THEN "direct" ELSE "prompting",
                        !.handler = "chat", !.body = << kind >> ] ]
        /\ obs' = ObsStep(obs)
        /\ UNCHANGED << skillGate, invs >>

\* await agent.call('purge_books', ...): the agent registers no skill of that
\* name, the call throws (caught) or resolves to undefined; the turn is over
ChatDirectCall(r) ==
    /\ reqs[r].st = "direct"
    /\ DeleteSkill \notin Skills
    /\ reqs' = [ reqs EXCEPT ![r] = EndedRequest ]
    /\ obs' = ObsStep(obs)
    /\ UNCHANGED << skillGate, invs >>

\* TLLMEvent.End: the stream of the turn ends once every tool call returned
ChatStreamEnd(r) ==
    /\ reqs[r].st = "prompting"
    /\ reqs[r].handler = "chat"
    /\ Len(invs[r]) = 0
    /\ reqs' = [ reqs EXCEPT ![r] = EndedRequest ]
    /\ obs' = ObsStep(obs)
    /\ UNCHANGED << skillGate, invs >>

ChatNext ==
    \/ \E r \in 1..MaxRequests : ChatLine(r)
    \/ \E r \in 1..MaxRequests : ChatDirectCall(r)
    \/ \E r \in 1..MaxRequests : ToolCall(r)
    \/ \E r \in 1..MaxRequests : \E n \in 1..Len(invs[r]) : HandlerResume(r, n)
    \/ \E r \in 1..MaxRequests : ChatStreamEnd(r)

ChatSpec == Init /\ [][ChatNext]_vars

\* C12 (as stated): the gate is reset at the start of every chat turn, so the
\* first skill a turn invokes, the turns before it being over, is let through
\* whatever those turns executed.
C12_LaterTurnNotBlocked ==
    \A r \in 1..MaxRequests :
        ( /\ reqs[r].handler = "chat"
          /\ \A q \in 1..(r - 1) : reqs[q].st = "ended"
          /\ obs.lastReturn.req = r
          /\ reqs[r].toolCalls = 1
          /\ Len(invs[r]) = 0 )
        => /\ obs.lastReturn.inv.granted
           /\ ~IsBlockedMessage(obs.lastReturn.inv.returned)

\* a result with a leading TASK COMPLETE decoration stripped
StripLeading(x) == IF x # << >> /\ Head(x) = TaskComplete THEN Tail(x) ELSE x

\* C13 (as stated): after markCompleted(K, X) in the current session
\* getBlockedMessage(K) returns a message that contains X, a leading TASK
\* COMPLETE decoration stripped; with no result recorded for K in the current
\* session it returns a non-empty message naming K.
C13_MessageHasResult ==
    obs.lastOp.op = "getBlockedMessage" =>
        IF obs.lastOp.arg \in DOMAIN obs.recorded
        THEN Contains(obs.lastOp.ret, StripLeading(obs.recorded[obs.lastOp.arg]))
        ELSE obs.lastOp.ret # << >> /\ Contains(obs.lastOp.ret, << obs.lastOp.arg >>)

\* C13 (amended): after markCompleted(K, X) with X not empty,
\* getBlockedMessage(K) returns a message that contains X with the first
\* occurrence of the TASK COMPLETE decoration removed, wherever in X it is;
\* with X empty or no result recorded it returns a non-empty message naming K.
C13_MessageHasResultStripped ==
    obs.lastOp.op = "getBlockedMessage" =>
        IF /\ obs.lastOp.arg \in DOMAIN obs.recorded
           /\ obs.recorded[obs.lastOp.arg] # << >>
        THEN Contains(obs.lastOp.ret,
                      replaceFirst(obs.recorded[obs.lastOp.arg], TaskComplete))
        ELSE obs.lastOp.ret # << >> /\ Contains(obs.lastOp.ret, << obs.lastOp.arg >>)

\* getBlockedMessage called for a skill whose recorded result has the
\* decoration inside
C13_Witness ==
    /\ obs.lastOp.op = "getBlockedMessage"
    /\ obs.lastOp.arg \in DOMAIN obs.recorded
    /\ obs.recorded[obs.lastOp.arg] = << "X", TaskComplete, "Y" >>
    /\ Contains(obs.lastOp.ret, << "X", "Y" >>)

\* C14: a getBlockedMessage call leaves the gate as it was, and a call that
\* directly follows a getBlockedMessage call for the same skill name returns
\* the message that one returned.
C14_ReadOnly ==
    obs.lastOp.op = "getBlockedMessage" =>
        /\ obs.blocked.kept
        /\ obs.blocked.repeat => obs.blocked.prev = obs.lastOp.ret

\* getBlockedMessage called twice in a row for a skill with a cached result
C14_Witness ==
    /\ obs.lastOp.op = "getBlockedMessage"
    /\ obs.blocked.repeat
    /\ GateKey(skillGate, obs.lastOp.arg) \in DOMAIN skillGate.skillResults
    /\ obs.lastOp.ret = CachedBlocked(<< TaskComplete, "X" >>)

\* a step in which a handler is invoked and the gate denies it
DeniedInvocation ==
    /\ obs'.invocations = obs.invocations + 1
    /\ obs'.granted = obs.granted

\* C15: every handler goes through canExecute before any external call, so an
\* invocation that waits on an external call is one the gate let through; an
\* invocation the gate denies returns at once, with getBlockedMessage(name) as
\* it is, having issued no external call and leaving the gate as it was (no
\* markCompleted).
C15_GateCheckFirst ==
    /\ [](\A n \in 1..Len(invs[1]) : invs[1][n].granted)
    /\ [][ DeniedInvocation =>
             /\ obs'.lastReturn.inv.pc = "returned"
             /\ ~obs'.lastReturn.inv.granted
             /\ obs'.lastReturn.inv.step = 0
             /\ obs'.lastReturn.inv.returned =
                    getBlockedMessage(skillGate, obs'.lastReturn.inv.skillName)
             /\ skillGate' = skillGate
             /\ invs' = invs ]_vars

\* each of the six handlers gets denied: here send_email, which awaits nothing,
\* and list_documents, denied with a handler of the session still waiting
C15_Witness ==
    /\ ~obs.lastReturn.inv.granted
    /\ obs.lastReturn.inv.pc = "returned"
    /\ obs.lastReturn.inv.skillName \in { "send_email", "list_documents" }
    /\ IsBlockedMessage(obs.lastReturn.inv.returned)
    /\ Len(invs[1]) = 1

\* C16: a handler invocation the gate let through has called markCompleted for
\* its own skill name exactly once when it returns, whichever exit it takes, so
\* that the gate then holds a result for that skill under the active id; a
\* denied invocation has called it not at all.
C16_MarksExactlyOnce ==
    obs.lastReturn.inv.pc = "returned" =>
        IF obs.lastReturn.inv.granted
        THEN /\ obs.lastReturn.inv.marks = 1
             /\ GateKey(skillGate, obs.lastReturn.inv.skillName)
                    \in DOMAIN skillGate.skillResults
        ELSE obs.lastReturn.inv.marks = 0

\* a handler that was let through returns through its catch block, after an
\* awaited call threw
C16_Witness ==
    /\ obs.lastReturn.inv.granted
    /\ obs.lastReturn.inv.step >= 1
    /\ obs.lastReturn.inv.marks = 1
    /\ obs.lastReturn.inv.returned = << "Error indexing document: ", "error.message" >>

\* the messages the handlers return and record when they fail
IsFailureMessage(m) ==
    /\ Len(m) >= 1
    /\ m[1] \in { "File resolved path to ", "Error indexing document: ",
                  "Pinecone connection failed: ", "Document ",
                  "Error searching documents: ", "Failed to delete documents: ",
                  "Error fetching document info: ", "Data directory does not exist: ",
                  "Error listing documents: " }

\* C17: between two startNewInput calls no invocation record and no cached
\* result is ever removed, so a skill the gate granted stays recorded also
\* when its handler fails; and a handler that fails in the session that
\* granted it leaves its skill recorded with the failure message as the cached
\* result.
C17_NoRollback ==
    /\ [][ obs'.sessions = obs.sessions =>
             /\ skillGate.executedSkills \subseteq skillGate'.executedSkills
             /\ DOMAIN skillGate.skillResults \subseteq DOMAIN skillGate'.skillResults
             /\ skillGate.hasExecutedAnySkill => skillGate'.hasExecutedAnySkill ]_vars
    /\ []( ( /\ obs.lastReturn.inv.granted
             /\ obs.lastReturn.inv.epoch = obs.sessions
             /\ IsFailureMessage(obs.lastReturn.inv.returned) )
           => /\ GateKey(skillGate, obs.lastReturn.inv.skillName)
                    \in skillGate.executedSkills
              /\ GateKey(skillGate, obs.lastReturn.inv.skillName)
                    \in DOMAIN skillGate.skillResults
              /\ skillGate.skillResults[GateKey(skillGate, obs.lastReturn.inv.skillName)]
                    = obs.lastReturn.inv.returned )

\* index_document, granted in the current session, fails in its catch block
\* and stays recorded
C17_Witness ==
    /\ obs.lastReturn.inv.granted
    /\ obs.lastReturn.inv.epoch = obs.sessions
    /\ obs.sessions >= 1
    /\ obs.lastReturn.inv.returned = << "Error indexing document: ", "error.message" >>
    /\ GateKey(skillGate, "index_document") \in skillGate.executedSkills

\* the handler the gate let through for `skillName` in the current session has
\* returned
ExitedInSession(skillName) ==
    /\ GateKey(skillGate, skillName) \in skillGate.executedSkills
    /\ \A n \in 1..Len(invs[1]) :
          ~(invs[1][n].skillName = skillName /\ invs[1][n].epoch = obs.sessions)

\* C18 (as stated): whichever exit a handler took after the gate let it
\* through, a later attempt at the same skill in the same session returns a
\* blocked message that carries the outcome the handler recorded, not the
\* generic one.
C18_BlockedCarriesOutcome ==
    ( /\ obs.lastReturn.inv.again
      /\ ~obs.lastReturn.inv.granted
      /\ ExitedInSession(obs.lastReturn.inv.skillName) )
    => /\ obs.lastReturn.inv.returned # GenericBlocked(obs.lastReturn.inv.skillName)
       /\ Head(obs.lastReturn.inv.returned)
             = "SUCCESS: Task was already completed successfully. "

\* C19 (as stated): a handler stores its outcome under the session in which
\* the gate let it through: when it returns, having recorded its outcome, the
\* gate has not been reset since its gate check, whatever other requests were
\* served meanwhile.
C19_ResultUnderOwnSession ==
    ( /\ obs.lastReturn.inv.pc = "returned"
      /\ obs.lastReturn.inv.granted
      /\ obs.lastReturn.inv.marks = 1 )
    => obs.lastReturn.inv.epoch = obs.sessions

\* C20 (as stated): in every reachable state of the server each key of
\* skillResults is a key of executedSkills: a cached result exists only for a
\* skill the gate let through in the current session.
C20_ResultHasRecord ==
    DOMAIN skillGate.skillResults \subseteq skillGate.executedSkills

\* C21: in every reachable state every invocation record and every cached
\* result is keyed by the active session id, and the gate holds nothing but
\* what was granted and recorded since the last startNewInput.
C21_OnlyCurrentSession ==
    /\ \A k \in skillGate.executedSkills \cup DOMAIN skillGate.skillResults :
          k[1] = skillGate.currentInputId
    /\ skillGate.executedSkills =
          { << skillGate.currentInputId, obs.calls[i].skillName >> :
                i \in { n \in 1..Len(obs.calls) : obs.calls[n].ret } }
    /\ DOMAIN skillGate.skillResults =
          { << skillGate.currentInputId, k >> : k \in DOMAIN obs.recorded }

\* a session that holds a record and a result, after an earlier one (under the
\* initial id) that held a record
C21_Witness ==
    /\ obs.sessions >= 1
    /\ \E k \in Skills : obs.grants[<< NoInput, k >>] >= 1
    /\ skillGate.executedSkills # {}
    /\ DOMAIN skillGate.skillResults # {}

\* C22: canExecute is one uninterrupted check-and-set. However the handlers
\* of one gate session interleave at their awaits, the first gate check of the
\* session is granted and every later one is denied, also while the granted
\* handler still waits on its external call; so at most one invocation of the
\* session is ever let through, and at most one per skill.
C22_AtomicCheckAndSet ==
    /\ [](/\ obs.granted <= 1
          /\ Cardinality({ n \in 1..Len(invs[1]) :
                             invs[1][n].epoch = obs.sessions }) <= 1)
    /\ [][obs'.invocations > obs.invocations =>
            /\ (obs'.granted = obs.granted + 1) <=> (obs.checked = {})
            /\ (obs'.granted = obs.granted) <=> (obs.checked # {})]_vars

\* lookup_document waits on its search while a second lookup_document of the
\* same session has just gone through the gate check and was denied
C22_Witness ==
    /\ \E n \in 1..Len(invs[1]) :
          /\ invs[1][n].skillName = "lookup_document"
          /\ invs[1][n].pc = "awaiting"
          /\ invs[1][n].granted
          /\ invs[1][n].epoch = obs.sessions
    /\ obs.lastReturn.inv.skillName = "lookup_document"
    /\ obs.lastReturn.inv.again
    /\ ~obs.lastReturn.inv.granted
    /\ obs.lastReturn.inv.epoch = obs.sessions

\* a request of one of the three malformed kinds: POST index_document without
\* document_path, execute-all without an array skillsToExecute, the prompt
\* route without message
Malformed(x) ==
    \/ x.path = SkillPath("index_document") /\ x.body = NoParameters
    \/ x.path = SkillPath("execute-all") /\ x.body \notin Batches
    \/ x.path = PromptPath /\ x.body # << "message" >>

\* C23 (as stated): a malformed request is rejected before the gate session is
\* reset and before any handler goes through the gate on its behalf: it is
\* never found past its reception, waiting on Agent.call or on a handler, and
\* the response it gets is the rejection, no handler having worked for it.
C23_RejectedBeforeReset ==
    /\ \A r \in 1..MaxRequests :
          Malformed(reqs[r]) => reqs[r].st \notin { "calling", "called", "prompting" }
    /\ Malformed(obs.lastResponse) =>
          /\ obs.lastResponse.response.status = 400
          /\ obs.lastResponse.worked = 0

\* C24 (as stated): a gate-blocked invocation is reported as a success: the
\* handler returns the blocked message as its value, the response of the
\* skill route carrying it has status 200 and success true, and the response
\* to an execute-all batch counts every entry that returned (the blocked ones
\* too) in successfulSkills and none of them in failedSkills.
C24_BlockedIsSuccess ==
    /\ (obs.lastReturn.inv.pc = "returned" /\ ~obs.lastReturn.inv.granted) =>
          IsBlockedMessage(obs.lastReturn.inv.returned)
    /\ (/\ obs.lastResponse.handler = "executeSkill"
        /\ "result" \in DOMAIN obs.lastResponse.response.data
        /\ IsBlockedMessage(obs.lastResponse.response.data.result)) =>
          /\ obs.lastResponse.response.status = 200
          /\ obs.lastResponse.response.success
    /\ (/\ obs.lastResponse.path = SkillPath("execute-all")
        /\ obs.lastResponse.body \in Batches) =>
          /\ obs.lastResponse.response.success
          /\ "successfulSkills" \in DOMAIN obs.lastResponse.response.data
          /\ "failedSkills" \in DOMAIN obs.lastResponse.response.data
          /\ obs.lastResponse.response.data.successfulSkills = Len(obs.lastResponse.body)
          /\ obs.lastResponse.response.data.failedSkills = 0

\* C25 (as stated): when an external call awaited by a handler throws, the
\* handler does not throw: it returns a descriptive error string, which it has
\* recorded with markCompleted, once.
C25_FailureBecomesErrorString ==
    (obs.lastReturn.inv.pc = "returned" /\ obs.lastReturn.inv.failed) =>
        /\ obs.lastReturn.inv.marks = 1
        /\ IsFailureMessage(obs.lastReturn.inv.returned)

\* ------------------------------------------------ the skill route, scheduled
\* The skill route under the scheduling Node gives it: a promise that is settled
\* has its continuation run, so a request that awaits Agent.call gets to the
\* skill's process function or to the rejection of the call, and, every
\* external call eventually returning or throwing, a handler that awaits one
\* is resumed.
SkillRouteNext ==
    \/ \E r \in 1..MaxRequests : ReceiveSkillRequest(r)
    \/ \E r \in 1..MaxRequests : SkillDispatch(r)
    \/ \E r \in 1..MaxRequests : UnknownSkillReturns(r)
    \/ \E r \in 1..MaxRequests : \E n \in 1..Len(invs[r]) : HandlerResume(r, n)

LiveSpec ==
    /\ Init
    /\ [][SkillRouteNext]_vars
    /\ \A r \in 1..MaxRequests :
          /\ WF_vars(SkillDispatch(r))
          /\ WF_vars(UnknownSkillReturns(r))
          /\ WF_vars(\E n \in 1..Len(invs[r]) : HandlerResume(r, n))

\* C26: provided every external call eventually returns or throws, a handler
\* invocation the gate let through and that waits on an external call
\* eventually returns, having recorded its result with markCompleted, no
\* invocation stays in flight for ever, and every request to the skill route
\* eventually gets its response.
C26_EventuallyCompletes ==
    \A r \in 1..MaxRequests :
        /\ (Len(invs[r]) > 0) ~>
              (/\ obs.lastReturn.req = r
               /\ obs.lastReturn.inv.granted
               /\ obs.lastReturn.inv.marks = 1)
        /\ (Len(invs[r]) > 0) ~> (Len(invs[r]) = 0)
        /\ (reqs[r].handler = "executeSkill" /\ reqs[r].st \in { "calling", "called" })
              ~> (reqs[r].st = "ended")

\* a request to the skill route is answered with the result of its handler,
\* which the gate let through and which waited on an external call
C26_Witness ==
    /\ obs.lastResponse.handler = "executeSkill"
    /\ obs.lastResponse.worked = 1
    /\ obs.lastResponse.response.status = 200
    /\ obs.lastReturn.inv.granted
    /\ obs.lastReturn.inv.step >= 1
    /\ obs.lastReturn.inv.marks = 1

\* the namespaces among the first Len(outcomes) whose deletion resolved, in
\* order
RECURSIVE Succeeded(_, _)
Succeeded(namespaces, outcomes) ==
    IF outcomes = << >> THEN << >>
    ELSE LET n == Len(outcomes)
             before == Succeeded(namespaces, SubSeq(outcomes, 1, n - 1))
         IN  IF outcomes[n] THEN Append(before, namespaces[n]) ELSE before

\* C27: purgeAllNamespacesDirect calls deleteAll on the namespaces the index
\* reported one after the other, each once, going on after a deletion that
\* failed; when it returns it has tried every one of them and purged holds
\* exactly those whose deletion succeeded, in the order visited.
C27_PurgedAreTheSucceeded ==
    \A n \in 1..Len(invs[1]) :
        LET c == invs[1][n] IN
        /\ Len(c.attempts) <= Len(c.namespaces)
        /\ c.attempts = SubSeq(c.namespaces, 1, Len(c.attempts))
        /\ c.pc = "deleteAll" => Len(c.attempts) = Len(c.outcomes) + 1
        /\ c.purged = Succeeded(c.namespaces, c.outcomes)
        /\ c.pc = "returned" =>
              /\ c.attempts = c.namespaces
              /\ Len(c.outcomes) = Len(c.namespaces)

\* three namespaces, the deletion of the second one failed: the call returned
\* the first and the third
C27_Witness ==
    /\ Len(invs[1]) = 1
    /\ invs[1][1].pc = "returned"
    /\ Len(invs[1][1].namespaces) = 3
    /\ invs[1][1].outcomes = << TRUE, FALSE, TRUE >>
    /\ invs[1][1].purged = << invs[1][1].namespaces[1], invs[1][1].namespaces[3] >>

\* C28: hasExecutedAnySkill is true exactly when executedSkills is not empty,
\* and executedSkills never holds more than one key; so whenever canExecute
\* denies, the any-skill flag is what denied it: the per-skill test is never
\* reached with the key present.
C28_FlagIffRecorded ==
    /\ skillGate.hasExecutedAnySkill <=> (skillGate.executedSkills # {})
    /\ Cardinality(skillGate.executedSkills) <= 1
    /\ (obs.lastOp.op = "canExecute" /\ ~obs.lastOp.ret) => skillGate.hasExecutedAnySkill
    /\ \A skillName \in Names :
          GateKey(skillGate, skillName) \in skillGate.executedSkills
              => skillGate.hasExecutedAnySkill

\* a second canExecute for the skill that holds the only record was denied
C28_Witness ==
    /\ obs.lastOp.op = "canExecute"
    /\ ~obs.lastOp.ret
    /\ skillGate.executedSkills = { GateKey(skillGate, obs.lastOp.arg) }
    /\ skillGate.hasExecutedAnySkill

\* C29: a canExecute call that returns false leaves the whole gate state as
\* it was: the invocation records, the cached results, the session id and the
\* any-skill flag.
C29_DenialChangesNothing ==
    [][ ( /\ Len(obs'.calls) = Len(obs.calls) + 1
          /\ obs'.lastOp.op = "canExecute"
          /\ ~obs'.lastOp.ret )
        => skillGate' = skillGate ]_vars

\* canExecute was denied for a skill other than the one granted, and the
\* denied skill has no record
C29_Witness ==
    /\ obs.lastOp.op = "canExecute"
    /\ ~obs.lastOp.ret
    /\ GateKey(skillGate, obs.lastOp.arg) \notin skillGate.executedSkills
    /\ skillGate.executedSkills # {}

\* C30: markCompleted changes nothing but the cached-result map, and no
\* canExecute call that would have been denied before it is granted after it,
\* whether or not the skill had been acquired.
C30_MarkOnlyCaches ==
    [][ ( obs'.marks = obs.marks + 1 /\ obs'.lastOp.op = "markCompleted" )
        => /\ skillGate'.executedSkills = skillGate.executedSkills
           /\ skillGate'.currentInputId = skillGate.currentInputId
           /\ skillGate'.hasExecutedAnySkill = skillGate.hasExecutedAnySkill
           /\ \A skillName \in Names :
                 canExecute(skillGate', skillName).ret
                     = canExecute(skillGate, skillName).ret ]_vars

\* a result was just recorded for a skill that had been acquired, and
\* canExecute for it is still denied
C30_Witness ==
    /\ obs.lastOp.op = "markCompleted"
    /\ GateKey(skillGate, obs.lastOp.arg) \in DOMAIN skillGate.skillResults
    /\ GateKey(skillGate, obs.lastOp.arg) \in skillGate.executedSkills
    /\ ~canExecute(skillGate, obs.lastOp.arg).ret

====
